---------------------------- MODULE Spec2Model ----------------------------
(***************************************************************************)
(* Model of the drpc peer engine (lib/open.js): outbound calls, the two    *)
(* pending tables, per-request timeouts, the connection state machine and  *)
(* the reconnection timer.  One action per event handler of the engine;    *)
(* the channel (events it delivers, writes that throw) is the environment. *)
(***************************************************************************)
EXTENDS Integers, Sequences, FiniteSets, TLC

(* ------------------------------ bounds --------------------------------- *)
MaxCalls == 2       \* outbound calls issued per behaviour (ids 0..MaxCalls-1)
MaxChannels == 2    \* channels obtained over a behaviour (initial + factory)
MaxWrites == 3      \* frames recorded in the channel write log
MaxRetryConfig == 1 \* largest maxRetries option tried
MaxDepth == 3       \* deepest recursion between the two peers
MaxRootCalls == 2   \* calls the application makes on the two peers together
MaxInbound == 2     \* raw messages a peer sends to the listeners
MaxSegments == 3    \* segments of a dotted method name
MaxChain == 3       \* elements of a chain
MaxPath == 2        \* property names read in one expression
MaxChildren == 2    \* child proxies created
MaxIssued == 1      \* requests issued through the proxies
MaxStored == 1      \* symbol keys holding a value
MaxInterleaved == 2 \* inbound requests whose handlers interleave

(* ------------------------- program constants --------------------------- *)
DefaultMaxRetries == 3
CONNECTION_CLOSED == -32000
REQUEST_TIMEOUT == -32001
PeerErrorCode == -32603

Ids == 0 .. (MaxCalls - 1)
Channels == 1 .. MaxChannels
RetryConfigs == 0 .. MaxRetryConfig

VARIABLES
    opened,               \* connectionConfig.opened
    hasFactory,           \* typeof connection === 'function'
    maxReconnectAttempts,
    currentState,
    isConnectionOpen,
    reconnectAttempts,
    messageCounter,
    pendingRequests,      \* in-flight table (set of request ids)
    pendingSubscriptions, \* send queue (set of request ids)
    response,             \* rpcRequest.response of each request
    timer,                \* rpcRequest.timeoutHandle of each request
    outcome,              \* what the awaiting caller resumed with
    channel,              \* index of the channel sendMessage is bound to
    isConnectionClosed,   \* the flag of each start() closure
    reconnectTimers,      \* armed reconnection timers
    written,              \* frames written, in order: [id, chan]
    stateChangeCallback,  \* connectionConfig.onStateChange was supplied
    stateChanges,         \* the (old, new) pairs the callback received
    lastEvent,            \* the handler that ran last and its argument
    \* --- a handler error on its way to the remote caller ---
    thrown,               \* the value a handler threw
    raised,               \* the error the remote caller's call raised
    \* --- two engines joined by an open duplex channel ---
    leaf,                 \* what the handlers do at the end of a recursion
    wire,                 \* frames written to each peer, not yet dispatched
    pCounter,             \* messageCounter of each peer
    pPending,             \* in-flight table of each peer
    pOutcome,             \* outcome of each outbound call of each peer
    suspended,            \* handler invocations awaiting an outbound call
    pEvent,               \* the last step of the pair of engines
    \* --- inbound messages of one engine ---
    answers,              \* frames the engine wrote in answer to them
    hAnswers,             \* frames the listener of lib/handler.js wrote
    applied,              \* the handler applications made, in order
    inEvent,              \* the inbound message handled last
    \* --- the completion of one outbound call ---
    reply,                \* what the remote side answered
    completion,           \* what the caller's call returned or raised
    \* --- the resolution of one method name ---
    routing,              \* the routing tree
    method,               \* the segments of the dotted method name
    resolved,             \* what resolve_method of lib/handler.js found
    routed,               \* what the engine's method router found
    \* --- the execution of one handler chain ---
    chain,                \* what each element of the chain does
    chainOutcome,         \* how the call ended
    \* --- the method proxy ---
    children,             \* the child proxies materialized so far
    symbolStore,          \* values stored under symbol keys
    issued,               \* the requests the calls of proxies issued
    proxyEvent,           \* the last operation on a proxy
    \* --- the objects handlers keep data on ---
    targets,              \* symbol-keyed properties of each engine's proxy
    contexts,             \* the invocation contexts invoke has created
    invocations,          \* where each handler invocation stands
    ctxEvent,             \* the last step of a handler
    maxRetries,           \* connectionConfig.maxRetries
    observed              \* history: the channel whose listener ran last,
                          \* an open event handled with the timer armed,
                          \* factory calls since the last open event

errVars == <<thrown, raised>>
peerVars == <<leaf, wire, pCounter, pPending, pOutcome, suspended, pEvent>>
inboundVars == <<answers, hAnswers, applied, inEvent>>
replyVars == <<reply, completion>>
routerVars == <<routing, method, resolved, routed>>
chainVars == <<chain, chainOutcome>>
proxyVars == <<children, symbolStore, issued, proxyEvent>>
contextVars == <<targets, contexts, invocations, ctxEvent>>
restVars == <<inboundVars, replyVars, routerVars, chainVars, proxyVars,
              contextVars>>

vars == <<opened, hasFactory, maxReconnectAttempts, currentState,
          isConnectionOpen, reconnectAttempts, messageCounter,
          pendingRequests, pendingSubscriptions, response, timer, outcome,
          channel, isConnectionClosed, reconnectTimers, written,
          stateChangeCallback, stateChanges, lastEvent,
          thrown, raised,
          leaf, wire, pCounter, pPending, pOutcome, suspended, pEvent,
          answers, hAnswers, applied, inEvent, reply, completion,
          routing, method, resolved, routed, chain, chainOutcome,
          children, symbolStore, issued, proxyEvent,
          targets, contexts, invocations, ctxEvent, maxRetries, observed>>

engineVars ==
    <<opened, hasFactory, maxRetries, maxReconnectAttempts, currentState,
      isConnectionOpen, reconnectAttempts, messageCounter,
      pendingRequests, pendingSubscriptions, response, timer, outcome,
      channel, isConnectionClosed, reconnectTimers, written,
      stateChangeCallback, stateChanges, lastEvent, observed>>

config == <<opened, hasFactory, maxRetries, maxReconnectAttempts,
           stateChangeCallback>>

\* nothing has happened on the channel yet
NothingObserved == [listener |-> 0, openedWhile |-> FALSE, factoryCalls |-> 0]

\* a step that is not the listener of a channel event
NoListener == [observed EXCEPT !.listener = 0]

\* a step of a listener of channel c
Listener(c) == [observed EXCEPT !.listener = c]

\* the connection state and what its observer has seen
connState == <<currentState, stateChanges>>

(* ------------------------------ frames --------------------------------- *)
Undefined == "<undefined>"   \* the JavaScript value undefined

NoResponse ==
    [id |-> -1, kind |-> "none", code |-> 0, message |-> "",
     type |-> Undefined, data |-> Undefined]

\* jsonrpc-spec.js: the fixed message of a code, undefined when it has none
\* (getMessageByCode applied to filterCodeType)
getMessageByCode(code) ==
    CASE code = -32600 -> "Invalid Request."
      [] code = -32601 -> "Method not found."
      [] code = -32602 -> "Invalid params."
      [] code = -32603 -> "Internal error."
      [] code = -32700 -> "Parse error."
      [] code = -32000 -> "Server disconnected."
      [] code = -32001 -> "Request timeout."
      [] code >= -32099 /\ code <= -32002 -> "Server error."
      [] OTHER -> Undefined

\* the error type setRpcError derives from a code
typeOfCode(code) ==
    IF code \in {-32700, -32600} THEN "PROTOCOL"
    ELSE IF code \in {-32601, -32602} THEN "BUSINESS"
    ELSE IF code \in {-32000, -32001} THEN "NETWORK"
    ELSE "SYSTEM"

\* createError wrapped in a response frame
errorFrame(id, code, message, type, data) ==
    [id |-> id, kind |-> "error", code |-> code, message |-> message,
     type |-> type, data |-> data]

\* setRpcError of the response module: a falsy message is replaced by the
\* code's fixed message, the type is derived from the code
setRpcErrorData(id, code, message, data) ==
    errorFrame(id, code,
               IF message \in {Undefined, ""} THEN getMessageByCode(code)
                                              ELSE message,
               typeOfCode(code), data)

\* setRpcError called without data
setRpcError(id, code, message) == setRpcErrorData(id, code, message, Undefined)

\* a success frame {id, result} received from the peer
ResultFrame(id) ==
    [id |-> id, kind |-> "result", code |-> 0, message |-> "",
     type |-> Undefined, data |-> Undefined]

\* response frames the peer can send
PeerFrames ==
    {ResultFrame(id) : id \in Ids}
        \cup {setRpcError(id, PeerErrorCode, "Internal error.") : id \in Ids}

(* --------------------------- request records --------------------------- *)
\* the part of the engine state handleResponse works on
ReqState ==
    [pendingRequests |-> pendingRequests,
     pendingSubscriptions |-> pendingSubscriptions,
     response |-> response, timer |-> timer, outcome |-> outcome]

\* handleResponse, table clean-up: in-flight first, else the send queue
handleResponseTables(rs, id) ==
    IF id \in rs.pendingRequests
        THEN [pendingRequests |-> rs.pendingRequests \ {id},
              pendingSubscriptions |-> rs.pendingSubscriptions]
        ELSE [pendingRequests |-> rs.pendingRequests,
              pendingSubscriptions |-> rs.pendingSubscriptions \ {id}]

\* handleResponse as it would be if it returned early for a request that is
\* not in the in-flight table
handleResponse_inFlightOnly(rs, id, responseData) ==
    IF id \notin rs.pendingRequests THEN rs
    ELSE [pendingRequests |-> rs.pendingRequests \ {id},
          pendingSubscriptions |-> rs.pendingSubscriptions,
          response |-> [rs.response EXCEPT ![id] = responseData],
          timer |-> [rs.timer EXCEPT
                       ![id] = IF @ = "armed" THEN "cleared" ELSE @],
          outcome |-> [rs.outcome EXCEPT
                         ![id] = IF @ = NoResponse THEN responseData ELSE @]]

\* handleResponse: clean up, store the response, clear the timer, set the
\* event.  The waiting caller is resumed by the first set() only and reads
\* rpcRequest.response at that moment.
handleResponse(rs, id, responseData) ==
    LET t == handleResponseTables(rs, id) IN
    [pendingRequests |-> t.pendingRequests,
     pendingSubscriptions |-> t.pendingSubscriptions,
     response |-> [rs.response EXCEPT ![id] = responseData],
     timer |-> [rs.timer EXCEPT ![id] = IF @ = "armed" THEN "cleared" ELSE @],
     outcome |-> [rs.outcome EXCEPT
                    ![id] = IF @ = NoResponse THEN responseData ELSE @]]

\* the ids of a table in the order for-in enumerates integer keys
RECURSIVE KeysInOrder(_)
KeysInOrder(S) ==
    IF S = {} THEN <<>>
    ELSE LET m == CHOOSE x \in S : \A y \in S : x <= y
         IN <<m>> \o KeysInOrder(S \ {m})

SetReqState(rs) ==
    /\ pendingRequests' = rs.pendingRequests
    /\ pendingSubscriptions' = rs.pendingSubscriptions
    /\ response' = rs.response
    /\ timer' = rs.timer
    /\ outcome' = rs.outcome

(* --------------------------- routing trees ------------------------------ *)
\* A routing tree: a handler (a function) or a namespace (an object) whose
\* keys are dotted names.  A dotted name is the sequence of its segments,
\* so that "user.special" is <<"user", "special">>.
Handler(does) == [kind |-> "handler", does |-> does]

Namespace(entries) == [kind |-> "namespace", keys |-> entries]

\* nothing was found (resolve_method returns undefined)
NoNode == [kind |-> "none"]

NotFound == [found |-> FALSE, node |-> NoNode, path |-> <<>>]

\* methods.slice(l)
SliceFrom(methods, l) == SubSeq(methods, l + 1, Len(methods))

\* the lengths l for which methods.slice(0, l).join('.') is a key of r
MatchingLengths(r, methods) ==
    {l \in 1 .. Len(methods) : SubSeq(methods, 1, l) \in DOMAIN r.keys}

\* the for loop of resolve_method as it would be if it counted upwards
\* from 1, taking the shortest matching prefix
firstMatch_shortest(lengths) ==
    CHOOSE l \in lengths : \A k \in lengths : k >= l

\* the for loop of resolve_method: l counts down from methods.length, so
\* the first match is the longest prefix
firstMatch(lengths) ==
    CHOOSE l \in lengths : \A k \in lengths : k <= l

\* resolve_method of lib/handler.js; path records the keys taken
RECURSIVE resolve_method_from(_, _, _)
resolve_method_from(r, methods, path) ==
    IF r.kind # "namespace" THEN NotFound
    ELSE IF Len(methods) = 1
      THEN IF methods \in DOMAIN r.keys /\ r.keys[methods].kind = "handler"
             THEN [found |-> TRUE, node |-> r.keys[methods],
                   path |-> Append(path, methods)]
             ELSE NotFound
    ELSE IF MatchingLengths(r, methods) = {} THEN NotFound
    ELSE LET l == firstMatch(MatchingLengths(r, methods))
             key == SubSeq(methods, 1, l)
             r1 == r.keys[key]
         IN IF SliceFrom(methods, l) = <<>>
              THEN IF r1.kind = "handler"
                     THEN [found |-> TRUE, node |-> r1,
                           path |-> Append(path, key)]
                     ELSE NotFound
              ELSE resolve_method_from(r1, SliceFrom(methods, l),
                                       Append(path, key))

resolve_method(routing_, method_) == resolve_method_from(routing_, method_, <<>>)

(* ------------------ the method router of the engine -------------------- *)
\* the router found no handler (-32601)
NotRouted == [found |-> FALSE, node |-> NoNode, suffix |-> <<>>,
              path |-> <<>>]

\* the method router as it would be if it did not hand the unconsumed
\* suffix on to the handler
RECURSIVE route_from_noSuffix(_, _, _)
route_from_noSuffix(node, segments, path) ==
    IF node.kind # "namespace"
      THEN [found |-> TRUE, node |-> node, suffix |-> <<>>, path |-> path]
    ELSE IF MatchingLengths(node, segments) = {} THEN NotRouted
    ELSE LET l == firstMatch(MatchingLengths(node, segments))
             key == SubSeq(segments, 1, l)
         IN route_from_noSuffix(node.keys[key], SliceFrom(segments, l),
                                Append(path, key))

\* the method router: at a namespace the longest key that is a prefix of
\* the remaining name is taken; the walk ends at the first node that is
\* not a namespace, with the segments not yet consumed as the suffix
RECURSIVE route_from(_, _, _)
route_from(node, segments, path) ==
    IF node.kind # "namespace"
      THEN [found |-> TRUE, node |-> node, suffix |-> segments,
            path |-> path]
    ELSE IF MatchingLengths(node, segments) = {} THEN NotRouted
    ELSE LET l == firstMatch(MatchingLengths(node, segments))
             key == SubSeq(segments, 1, l)
         IN route_from(node.keys[key], SliceFrom(segments, l),
                       Append(path, key))

route(routing_, method_) == route_from(routing_, method_, <<>>)

(* ------------- the parts of the program the other sections model -------- *)
\* no inbound message has been received
InboundIdle ==
    /\ answers = <<>>
    /\ hAnswers = <<>>
    /\ applied = <<>>
    /\ inEvent = [n |-> 0, engine |-> "open", raw |-> [kind |-> "none"],
                  rejected |-> FALSE]

\* no call is being completed
ReplyIdle ==
    /\ reply = "none"
    /\ completion = [kind |-> "pending"]

\* no method is being resolved
RouterIdle ==
    /\ routing = [kind |-> "none"]
    /\ method = <<>>
    /\ resolved = [done |-> FALSE]
    /\ routed = [done |-> FALSE]

\* no chain is being run
NotRun == [kind |-> "idle"]

ChainIdle ==
    /\ chain = <<>>
    /\ chainOutcome = NotRun

\* the root proxy has not been used
ProxyIdle ==
    /\ children = <<>>
    /\ symbolStore = {}
    /\ issued = <<>>
    /\ proxyEvent = [op |-> "none"]

\* no handler has stored anything
ContextIdle ==
    /\ targets = <<>>
    /\ contexts = <<>>
    /\ invocations = <<>>
    /\ ctxEvent = [op |-> "none"]

RestIdle ==
    /\ ContextIdle
    /\ InboundIdle
    /\ ReplyIdle
    /\ RouterIdle
    /\ ChainIdle
    /\ ProxyIdle

(* ------------- a handler's error on its way to the remote caller -------- *)
\* the values a handler throws: an Error, TypeError or SyntaxError object
\* that may carry code, type and data properties; an object already in the
\* standard format {error: {code, message, type, data}}; null or undefined
ErrorKinds == {"Error", "TypeError", "SyntaxError"}
ThrownCodes == {0, 1, -32050, -32601, -32000}
ThrownMessages == {"", "boom"}
ThrownTypes == {Undefined, "BUSINESS", "NETWORK"}
ThrownData == {Undefined, "d"}

\* coded is whether the object has a code property at its top level
ThrownValue(kind, coded, code, message, type, data) ==
    [kind |-> kind, coded |-> coded, code |-> code, message |-> message,
     type |-> type, data |-> data]

ThrownNull == ThrownValue("null", FALSE, 0, Undefined, Undefined, Undefined)

ThrownValues ==
    {ThrownValue(k, TRUE, c, m, t, d) :
        k \in ErrorKinds, c \in ThrownCodes, m \in ThrownMessages,
        t \in ThrownTypes, d \in ThrownData}
    \cup {ThrownValue(k, FALSE, 0, m, t, d) :
        k \in ErrorKinds, m \in ThrownMessages,
        t \in ThrownTypes, d \in ThrownData}
    \cup {ThrownValue("standard", FALSE, c, m, t, d) :
        c \in ThrownCodes, m \in ThrownMessages,
        t \in ThrownTypes, d \in ThrownData}
    \cup {ThrownNull}

\* the call has not been answered yet
NotRaised == ThrownValue("pending", FALSE, 0, Undefined, Undefined, Undefined)

\* invoke rejected instead of returning a frame: nothing is written
Rejected(id) ==
    [id |-> id, kind |-> "rejected", code |-> 0, message |-> "",
     type |-> Undefined, data |-> Undefined]

\* parseError as it would be without its TypeError branch
parseError_noTypeError(error) ==
    IF error.kind = "standard"
        THEN [code |-> error.code, message |-> error.message,
              type |-> error.type, data |-> error.data]
    ELSE IF error.kind = "SyntaxError"
        THEN [code |-> -32700, message |-> error.message,
              type |-> "PROTOCOL", data |-> Undefined]
    ELSE [code |-> -32603,
          message |-> IF error.message \in {Undefined, ""}
                        THEN "Internal error" ELSE error.message,
          type |-> "SYSTEM", data |-> Undefined]

\* parseError: the standard format is returned as it is, SyntaxError and
\* TypeError get their own code, everything else is an internal error
parseError(error) ==
    IF error.kind = "standard"
        THEN [code |-> error.code, message |-> error.message,
              type |-> error.type, data |-> error.data]
    ELSE IF error.kind = "SyntaxError"
        THEN [code |-> -32700, message |-> error.message,
              type |-> "PROTOCOL", data |-> Undefined]
    ELSE IF error.kind = "TypeError"
        THEN [code |-> -32602, message |-> error.message,
              type |-> "PROTOCOL", data |-> Undefined]
    ELSE [code |-> -32603,
          message |-> IF error.message \in {Undefined, ""}
                        THEN "Internal error" ELSE error.message,
          type |-> "SYSTEM", data |-> Undefined]

\* handleError of the response module
handleError(id, error) ==
    LET standardError == parseError(error) IN
    errorFrame(id, standardError.code, standardError.message,
               standardError.type, standardError.data)

\* the test  if (error.code)  of invoke's catch block
hasTruthyCode(error) ==
    error.kind # "standard" /\ error.coded /\ error.code # 0

\* the catch block of invoke.  Reading error.code of null or undefined
\* throws inside the catch block, so invoke rejects.
invokeCatch(id, error) ==
    IF error.kind = "null" THEN Rejected(id)
    ELSE IF hasTruthyCode(error)
        THEN setRpcErrorData(id, error.code, error.message, error.data)
    ELSE handleError(id, error)

\* createMethodProxy after the wait: the Error built from the error member
\* of the response frame read back from JSON (a member that was undefined
\* is absent from the text and undefined again after parsing; new Error of
\* an undefined message has the message "")
callerError(frame) ==
    ThrownValue("Error", TRUE, frame.code,
                IF frame.message = Undefined THEN "" ELSE frame.message,
                frame.type, frame.data)

\* the error a remote caller gets for a value thrown by the handler
raisedFor(error) ==
    LET frame == invokeCatch(0, error) IN
    IF frame.kind = "rejected"
        THEN ThrownValue("unanswered", FALSE, 0, Undefined, Undefined,
                         Undefined)
        ELSE callerError(frame)

\* no handler error is under way
ErrorIdle ==
    /\ thrown = ThrownNull
    /\ raised = NotRaised

(* ------------- two engines joined by an open duplex channel ------------- *)
Peers == {"A", "B"}

\* outbound calls one peer can come to make
MaxPeerCalls == MaxRootCalls * MaxDepth

Other(p) == IF p = "A" THEN "B" ELSE "A"

\* what the handler does when the recursion ends
LeafBehaviours == {"return", "throwError", "throwNull"}

\* a request frame for the recursive method with parameter n
RequestFrame(id, n) == [id |-> id, kind |-> "request", n |-> n]

\* the Error object a handler throws at the end of the recursion
LeafError == ThrownValue("Error", FALSE, 0, "boom", Undefined, Undefined)

\* invoke: the response frame for what the handler did
invoke(id, returned, error) ==
    IF returned THEN ResultFrame(id) ELSE invokeCatch(id, error)

\* handleMessage as it would be if the channel's listener waited for the
\* handlers it started before taking the next frame
dispatchFree_blocking(busy) == ~busy

\* handleMessage is an async function: the listener returns at the first
\* await, so a frame is dispatched whether or not handlers are suspended
dispatchFree(busy) == TRUE

\* the pair of engines is not running
PeerIdle ==
    /\ leaf = "return"
    /\ wire = [p \in Peers |-> <<>>]
    /\ pCounter = [p \in Peers |-> 0]
    /\ pPending = [p \in Peers |-> {}]
    /\ pOutcome = [p \in Peers |-> <<>>]
    /\ suspended = {}
    /\ pEvent = [type |-> "open", peer |-> "A", busy |-> FALSE,
                 answer |-> -1, threw |-> FALSE]

\* an engine on an open channel nobody calls through
EngineIdle ==
    /\ stateChangeCallback = FALSE
    /\ opened = TRUE
    /\ hasFactory = FALSE
    /\ maxRetries = 0
    /\ maxReconnectAttempts = DefaultMaxRetries
    /\ currentState = "CONNECTING"
    /\ isConnectionOpen = opened
    /\ reconnectAttempts = 0
    /\ messageCounter = 0
    /\ pendingRequests = {}
    /\ pendingSubscriptions = {}
    /\ response = [i \in Ids |-> NoResponse]
    /\ timer = [i \in Ids |-> "unset"]
    /\ outcome = [i \in Ids |-> NoResponse]
    /\ channel = 1
    /\ isConnectionClosed = [c \in Channels |-> FALSE]
    /\ reconnectTimers = 0
    /\ written = <<>>
    /\ stateChanges = <<>>
    /\ lastEvent = [type |-> "start", arg |-> 1, ok |-> TRUE]
    /\ observed = NothingObserved

(* ------------------- inbound messages of one engine -------------------- *)
\* the params member of a request frame
Params(shape, items) == [shape |-> shape, items |-> items]

ParamsAbsent == Params("absent", <<>>)

ParamsValues ==
    {ParamsAbsent, Params("array", <<"x">>)}
    \cup {Params(s, <<>>) :
            s \in {"object", "string", "number", "boolean", "null"}}

\* the id the peer gave its request
InboundId == 7

\* the routing both listeners are given: one handler that returns, one
\* that throws an Error
InboundRouting ==
    Namespace((<<"known">> :> Handler("return"))
              @@ (<<"fails">> :> Handler("throw")))

\* text that is not JSON
Garbage == [kind |-> "garbage"]

\* a frame without a method member
NoMethod(id) == [kind |-> "nomethod", id |-> id]

Request(id, m, params) ==
    [kind |-> "request", id |-> id, method |-> m, params |-> params]

RawMessages ==
    {Garbage, NoMethod(InboundId),
     Request(InboundId, <<"fails">>, Params("array", <<"x">>))}
    \cup {Request(InboundId, m, p) :
            m \in {<<"known">>, <<"unknown">>}, p \in ParamsValues}

\* an Error object carrying a code and no message of its own
CodedError(code) == ThrownValue("Error", TRUE, code, "", Undefined, Undefined)

\* no handler was applied; the call fails with the error
Refused(error) ==
    [applied |-> FALSE, args |-> <<>>, returned |-> FALSE, error |-> error]

\* the arguments a params member stands for, as it would be if any params
\* that is not an array were taken as no arguments
paramsAccepted_any(params) == TRUE

\* lib/handler.js: params is undefined or Array.isArray(params)
paramsAccepted(params) == params.shape \in {"absent", "array"}

\* methodHandler.apply(callMessage, rpcMessage.params): params validated,
\* the method routed, the handler applied to the arguments
methodHandlerApply(routing_, m, params) ==
    IF params.shape \notin {"absent", "array"}
      THEN Refused(CodedError(-32602))
    ELSE IF ~route(routing_, m).found THEN Refused(CodedError(-32601))
    ELSE [applied |-> TRUE, args |-> params.items,
          returned |-> route(routing_, m).node.does = "return",
          error |-> LeafError]

\* invoke of lib/handler.js: the frame for a raw message and whether a
\* handler was applied
handlerInvoke(routing_, raw) ==
    IF raw.kind = "garbage"
      THEN [applied |-> FALSE, args |-> <<>>,
            frame |-> setRpcError(-1, -32700, Undefined)]
    ELSE IF raw.kind = "nomethod"
      THEN [applied |-> FALSE, args |-> <<>>,
            frame |-> setRpcError(raw.id, -32600, Undefined)]
    ELSE IF ~paramsAccepted(raw.params)
      THEN [applied |-> FALSE, args |-> <<>>,
            frame |-> setRpcError(raw.id, -32602, Undefined)]
    ELSE IF ~resolve_method(routing_, raw.method).found
      THEN [applied |-> FALSE, args |-> <<>>,
            frame |-> setRpcError(raw.id, -32601, Undefined)]
    ELSE [applied |-> TRUE, args |-> raw.params.items,
          frame |->
            IF resolve_method(routing_, raw.method).node.does = "return"
              THEN ResultFrame(raw.id)
              ELSE setRpcError(raw.id, -32603, LeafError.message)]

(* ------------------------------- Init ---------------------------------- *)
\* the state when open() returns: start() has run once on the first channel
EngineInit ==
    /\ hasFactory \in BOOLEAN
    /\ maxRetries \in RetryConfigs
    /\ maxReconnectAttempts =
         IF maxRetries = 0 THEN DefaultMaxRetries ELSE maxRetries
    /\ currentState = "CONNECTING"
    /\ isConnectionOpen = opened
    /\ reconnectAttempts = 0
    /\ messageCounter = 0
    /\ pendingRequests = {}
    /\ pendingSubscriptions = {}
    /\ response = [i \in Ids |-> NoResponse]
    /\ timer = [i \in Ids |-> "unset"]
    /\ outcome = [i \in Ids |-> NoResponse]
    /\ channel = 1
    /\ isConnectionClosed = [c \in Channels |-> FALSE]
    /\ reconnectTimers = 0
    /\ written = <<>>
    /\ stateChanges = IF stateChangeCallback
                        THEN << <<"INIT", "CONNECTING">> >> ELSE <<>>
    /\ lastEvent = [type |-> "start", arg |-> 1, ok |-> TRUE]
    /\ observed = NothingObserved

\* an engine constructed without an onStateChange callback
Init ==
    /\ stateChangeCallback = FALSE
    /\ opened \in BOOLEAN
    /\ EngineInit
    /\ ErrorIdle
    /\ PeerIdle
    /\ RestIdle

\* an engine constructed with an onStateChange callback on a channel that
\* is not yet open
InitCallback ==
    /\ stateChangeCallback = TRUE
    /\ opened = FALSE
    /\ EngineInit
    /\ ErrorIdle
    /\ PeerIdle
    /\ RestIdle

(* ------------------------------ actions -------------------------------- *)
\* the counter if the increment were missing
postIncrement_stuck(counter) == counter

\* messageCounter++ : the counter after an id has been taken from it
postIncrement(counter) == counter + 1

\* the async function of createMethodProxy up to its await
Call ==
    /\ messageCounter < MaxCalls
    /\ LET requestId == messageCounter IN
       /\ messageCounter' = postIncrement(messageCounter)
       /\ timer' = [timer EXCEPT ![requestId] = "armed"]
       /\ \E throws \in BOOLEAN :
            IF isConnectionOpen /\ ~throws
              THEN /\ Len(written) < MaxWrites
                   /\ written' = Append(written,
                                        [id |-> requestId, chan |-> channel])
                   /\ pendingRequests' = pendingRequests \cup {requestId}
                   /\ UNCHANGED pendingSubscriptions
                   /\ lastEvent' = [type |-> "call", arg |-> requestId,
                                    ok |-> TRUE]
              ELSE /\ pendingSubscriptions' =
                          pendingSubscriptions \cup {requestId}
                   /\ UNCHANGED <<pendingRequests, written>>
                   /\ lastEvent' = [type |-> "call", arg |-> requestId,
                                    ok |-> FALSE]
    /\ observed' = NoListener
    /\ UNCHANGED <<errVars, peerVars, restVars, config, connState, isConnectionOpen, reconnectAttempts,
                   response, outcome, channel, isConnectionClosed,
                   reconnectTimers>>

\* the timeout callback armed by createMethodProxy
Timeout(id) ==
    /\ timer[id] = "armed"
    /\ LET fired == [ReqState EXCEPT !.timer[id] = "fired"] IN
       SetReqState(handleResponse(fired, id,
                       setRpcError(id, REQUEST_TIMEOUT, "Request timeout")))
    /\ lastEvent' = [type |-> "timeout", arg |-> id, ok |-> TRUE]
    /\ observed' = NoListener
    /\ UNCHANGED <<errVars, peerVars, restVars, config, connState, isConnectionOpen, reconnectAttempts,
                   messageCounter, channel, isConnectionClosed,
                   reconnectTimers, written>>

\* updateConnectionState without its test that the state differs
updateConnectionState_unguarded(state) ==
    /\ currentState' = state
    /\ stateChanges' = IF stateChangeCallback
                         THEN Append(stateChanges, <<currentState, state>>)
                         ELSE stateChanges

\* updateConnectionState: the only writer of currentState; it reports a
\* change to the callback, if there is one
updateConnectionState(state) ==
    /\ currentState' = state
    /\ stateChanges' = IF state # currentState /\ stateChangeCallback
                         THEN Append(stateChanges, <<currentState, state>>)
                         ELSE stateChanges

\* the retry test of handleConnectionClose with an off-by-one
canRetry_inclusive(attempts, max) == attempts <= max

\* the retry test of handleConnectionClose
canRetry(attempts, max) == attempts < max

\* the look-up of handleMessage if it also searched the send queue
lookupPending_anyTable(rs, id) ==
    id \in rs.pendingRequests \cup rs.pendingSubscriptions

\* the look-up of handleMessage: is the frame's id in the in-flight table
lookupPending(rs, id) == id \in rs.pendingRequests

\* the loop of handleConnectionClose over the in-flight table
RECURSIVE failAll(_, _)
failAll(rs, keys) ==
    IF keys = <<>> THEN rs
    ELSE failAll(handleResponse(rs, Head(keys),
                     setRpcError(Head(keys), CONNECTION_CLOSED,
                                 "Connection closed")),
                 Tail(keys))

\* handleConnectionClose of the start() closure of channel c, the listener
\* of its close, exit and error events
handleConnectionClose(c) ==
    /\ c \in 1 .. channel
    /\ lastEvent' = [type |-> "close", arg |-> c, ok |-> ~isConnectionClosed[c]]
    /\ observed' = Listener(c)
    /\ IF ~isConnectionClosed[c]
         THEN /\ isConnectionClosed' = [isConnectionClosed EXCEPT ![c] = TRUE]
              /\ SetReqState(failAll(ReqState, KeysInOrder(pendingRequests)))
              /\ IF canRetry(reconnectAttempts, maxReconnectAttempts)
                   THEN /\ updateConnectionState("RECONNECTING")
                        /\ reconnectAttempts' = reconnectAttempts + 1
                        /\ reconnectTimers' = reconnectTimers + 1
                   ELSE /\ updateConnectionState("CLOSED")
                        /\ UNCHANGED <<reconnectAttempts, reconnectTimers>>
         ELSE UNCHANGED <<isConnectionClosed, pendingRequests,
                          pendingSubscriptions, response, timer, outcome,
                          connState, reconnectAttempts, reconnectTimers>>
    /\ UNCHANGED <<errVars, peerVars, restVars, config, isConnectionOpen, messageCounter, channel, written>>

\* the callback of the reconnection timer as it would be if an engine
\* without a factory stayed in RECONNECTING
ReconnectTimer_keepsReconnecting ==
    /\ reconnectTimers > 0
    /\ reconnectTimers' = reconnectTimers - 1
    /\ observed' =
         [listener |-> 0, openedWhile |-> FALSE,
          factoryCalls |->
            IF currentState = "RECONNECTING" /\ hasFactory
              THEN observed.factoryCalls + 1 ELSE observed.factoryCalls]
    /\ IF currentState = "RECONNECTING"
         THEN IF hasFactory
                THEN /\ channel < MaxChannels
                     /\ channel' = channel + 1
                     /\ updateConnectionState("CONNECTING")
                     /\ lastEvent' = [type |-> "start", arg |-> channel + 1,
                                      ok |-> TRUE]
                ELSE /\ lastEvent' = [type |-> "retry", arg |-> channel,
                                      ok |-> FALSE]
                     /\ UNCHANGED <<channel, connState>>
         ELSE /\ lastEvent' = [type |-> "retry", arg |-> channel, ok |-> TRUE]
              /\ UNCHANGED <<channel, connState>>
    /\ UNCHANGED <<errVars, peerVars, restVars, config, isConnectionOpen, reconnectAttempts, messageCounter,
                   pendingRequests, pendingSubscriptions, response, timer,
                   outcome, isConnectionClosed, written>>

\* the callback of the reconnection timer armed by handleConnectionClose;
\* with a factory it obtains a new channel and runs start() on it
ReconnectTimer ==
    /\ reconnectTimers > 0
    /\ reconnectTimers' = reconnectTimers - 1
    /\ observed' =
         [listener |-> 0, openedWhile |-> FALSE,
          factoryCalls |->
            IF currentState = "RECONNECTING" /\ hasFactory
              THEN observed.factoryCalls + 1 ELSE observed.factoryCalls]
    /\ IF currentState = "RECONNECTING"
         THEN IF hasFactory
                THEN /\ channel < MaxChannels
                     /\ channel' = channel + 1
                     /\ updateConnectionState("CONNECTING")
                     /\ lastEvent' = [type |-> "start", arg |-> channel + 1,
                                      ok |-> TRUE]
                ELSE /\ updateConnectionState("CLOSED")
                     /\ lastEvent' = [type |-> "retry", arg |-> channel,
                                      ok |-> FALSE]
                     /\ UNCHANGED channel
         ELSE /\ lastEvent' = [type |-> "retry", arg |-> channel, ok |-> TRUE]
              /\ UNCHANGED <<channel, connState>>
    /\ UNCHANGED <<errVars, peerVars, restVars, config, isConnectionOpen, reconnectAttempts, messageCounter,
                   pendingRequests, pendingSubscriptions, response, timer,
                   outcome, isConnectionClosed, written>>

\* the frames the flush loop of handleConnectionOpen writes when the write
\* of its (n+1)-th queued request throws (n = the queue's size: none throws)
flushed(queue, n) == SubSeq(KeysInOrder(queue), 1, n)

Range(s) == {s[i] : i \in 1 .. Len(s)}

\* handleConnectionOpen, the listener of the open event of channel c
handleConnectionOpen(c) ==
    /\ c \in 1 .. channel
    /\ reconnectAttempts' = 0
    /\ observed' =
         [listener |-> c,
          openedWhile |-> \/ observed.openedWhile
                          \/ (currentState = "RECONNECTING"
                              /\ reconnectTimers > 0),
          factoryCalls |-> 0]
    /\ \E n \in 0 .. Cardinality(pendingSubscriptions) :
         LET sent == flushed(pendingSubscriptions, n) IN
         /\ Len(written) + n <= MaxWrites
         /\ written' = written \o
                 [i \in 1 .. n |-> [id |-> sent[i], chan |-> channel]]
         /\ pendingRequests' = pendingRequests \cup Range(sent)
         /\ IF n = Cardinality(pendingSubscriptions)
              THEN /\ pendingSubscriptions' = {}
                   /\ isConnectionOpen' = TRUE
                   /\ updateConnectionState("CONNECTED")
                   /\ lastEvent' = [type |-> "open", arg |-> c, ok |-> TRUE]
              ELSE \* sendMessage threw: the handler is abandoned
                   /\ UNCHANGED <<pendingSubscriptions, isConnectionOpen,
                                  connState>>
                   /\ lastEvent' = [type |-> "open", arg |-> c, ok |-> FALSE]
    /\ UNCHANGED <<errVars, peerVars, restVars, config, messageCounter, response, timer, outcome, channel,
                   isConnectionClosed, reconnectTimers>>

\* handleMessage for a response frame (no string method field)
handleMessage(c, messagePayload) ==
    /\ c \in 1 .. channel
    /\ lastEvent' = [type |-> "message", arg |-> messagePayload.id,
                     ok |-> lookupPending(ReqState, messagePayload.id)]
    /\ observed' = Listener(c)
    /\ IF ~lookupPending(ReqState, messagePayload.id)
         THEN UNCHANGED <<pendingRequests, pendingSubscriptions, response,
                          timer, outcome>>
         ELSE SetReqState(handleResponse(ReqState, messagePayload.id,
                                         messagePayload))
    /\ UNCHANGED <<errVars, peerVars, restVars, config, connState, isConnectionOpen, reconnectAttempts,
                   messageCounter, channel, isConnectionClosed,
                   reconnectTimers, written>>

(* ------------------------------ claims --------------------------------- *)
Issued(id) == timer[id] # "unset"
Completed(id) == outcome[id] # NoResponse

\* C1: every issued call completes for its caller exactly once, with a
\* success frame or an error frame, and has done so by the time its timeout
\* timer has fired: a call not yet completed still has its timer armed, and
\* a caller's outcome never changes once it is set.
C1_CompletesOnceByTimeout ==
    /\ [](\A id \in Ids :
            /\ (Issued(id) /\ ~Completed(id)) => timer[id] = "armed"
            /\ timer[id] \in {"fired", "cleared"} =>
                   outcome[id].kind \in {"result", "error"})
    /\ [][\A id \in Ids : Completed(id) => outcome'[id] = outcome[id]]_vars

\* C1 witness: one call ended by its timer, another by a peer's frame
C1_Witness ==
    \E a, b \in Ids :
        /\ timer[a] = "fired" /\ outcome[a].code = REQUEST_TIMEOUT
        /\ timer[b] = "cleared" /\ outcome[b].kind = "result"

\* C2: the ids of successive calls are fresh and strictly increasing, and a
\* response frame with id k touches no request other than the one with id
\* k; every stored response carries the id of the request it is stored in.
C2_DistinctIdsAndRouting ==
    /\ [][lastEvent'.type = "call" =>
            /\ ~Issued(lastEvent'.arg)
            /\ \A j \in Ids : Issued(j) => j < lastEvent'.arg]_vars
    /\ [][lastEvent'.type = "message" =>
            \A j \in Ids \ {lastEvent'.arg} :
                /\ response'[j] = response[j]
                /\ outcome'[j] = outcome[j]
                /\ timer'[j] = timer[j]
                /\ (j \in pendingRequests') = (j \in pendingRequests)
                /\ (j \in pendingSubscriptions') = (j \in pendingSubscriptions)]_vars
    /\ [](\A j \in Ids : response[j].kind # "none" => response[j].id = j)

\* C2 witness: the response to the later call arrived first
C2_Witness ==
    /\ lastEvent = [type |-> "message", arg |-> 1, ok |-> TRUE]
    /\ outcome[1].kind = "result" /\ outcome[1].id = 1
    /\ 0 \in pendingRequests /\ ~Completed(0)

\* C3: every close, exit or error event handled while the state is CONNECTED
\* completes each in-flight request with code -32000 and leaves the
\* in-flight table empty.
C3_EveryCloseFailsInFlight ==
    [][(lastEvent'.type = "close" /\ currentState = "CONNECTED") =>
          /\ pendingRequests' = {}
          /\ \A id \in pendingRequests :
                response'[id].code = CONNECTION_CLOSED]_vars

\* C4: a request that has not completed is in exactly one of the send queue
\* and the in-flight table, and a completed request is in neither.
C4_ExactlyOneTable ==
    \A id \in Ids :
        /\ (Issued(id) /\ ~Completed(id)) =>
              (id \in pendingRequests) # (id \in pendingSubscriptions)
        /\ Completed(id) =>
              id \notin pendingRequests \cup pendingSubscriptions

\* C5: a timer that fires completes its request with -32001 "Request
\* timeout" and removes it from both tables, and once a caller's outcome is
\* the timeout error no later event changes the request's response, its
\* outcome or its absence from the tables.
C5_TimeoutCompletesAndLateResponseDropped ==
    /\ [][lastEvent'.type = "timeout" =>
            LET id == lastEvent'.arg IN
            /\ response'[id] =
                   setRpcError(id, REQUEST_TIMEOUT, "Request timeout")
            /\ outcome'[id] = response'[id]
            /\ id \notin pendingRequests' \cup pendingSubscriptions']_vars
    /\ [][\A id \in Ids :
            (timer[id] = "fired" /\ lastEvent'.type = "message") =>
                /\ response'[id] = response[id]
                /\ outcome'[id].code = REQUEST_TIMEOUT]_vars

\* C6: a call issued while the state is not CONNECTED is put in the send
\* queue, not in the in-flight table, and is not completed at issue time.
C6_QueuedWhenNotConnected ==
    [][(lastEvent'.type = "call" /\ currentState # "CONNECTED") =>
          /\ lastEvent'.arg \in pendingSubscriptions'
          /\ lastEvent'.arg \notin pendingRequests'
          /\ outcome'[lastEvent'.arg] = NoResponse]_vars

\* C7: an open event writes every request of the send queue to the channel,
\* in issue order, and moves it to the in-flight table.
C7_OpenFlushesQueueInOrder ==
    [][lastEvent'.type = "open" =>
          LET keys == KeysInOrder(pendingSubscriptions) IN
          /\ written' = written \o
                 [i \in 1 .. Len(keys) |-> [id |-> keys[i], chan |-> channel]]
          /\ pendingSubscriptions \subseteq pendingRequests'
          /\ pendingSubscriptions' = {}]_vars

\* C8: on one channel the frames of two calls are first written in the
\* order the calls were issued.
C8_WritesInIssueOrder ==
    \A i, j \in 1 .. Len(written) :
        (i < j /\ written[i].chan = written[j].chan
               /\ written[j].id < written[i].id) =>
            \E k \in 1 .. (i - 1) : written[k] = written[j]

\* C9: a close, exit or error event leaves the send queue, and the timer,
\* response and outcome of every request in the send queue, unchanged; a
\* request in the send queue is never completed with -32000.
C9_CloseLeavesQueueAlone ==
    [][lastEvent'.type = "close" =>
          /\ pendingSubscriptions' = pendingSubscriptions
          /\ \A id \in pendingSubscriptions :
                /\ timer'[id] = timer[id]
                /\ response'[id] = response[id]
                /\ outcome'[id] = outcome[id]
                /\ response'[id].code # CONNECTION_CLOSED]_vars

\* C10: a request whose timer fires while it is in the send queue leaves the
\* queue, and no later open event writes its frame.
C10_TimedOutQueuedNeverWritten ==
    /\ [][(lastEvent'.type = "timeout"
             /\ lastEvent'.arg \in pendingSubscriptions) =>
            lastEvent'.arg \notin pendingSubscriptions']_vars
    /\ [][\A id \in Ids :
            (timer[id] = "fired" /\ lastEvent'.type = "open") =>
                \A i \in (Len(written) + 1) .. Len(written') :
                    written'[i].id # id]_vars

\* C11: once the state is CLOSED no event changes it, a call issued in
\* state CLOSED goes to the send queue and not to the in-flight table, and
\* while the state is CLOSED a queued request completes only by timeout.
C11_ClosedIsTerminal ==
    /\ [][currentState = "CLOSED" => currentState' = "CLOSED"]_vars
    /\ [][(lastEvent'.type = "call" /\ currentState = "CLOSED") =>
            /\ lastEvent'.arg \in pendingSubscriptions'
            /\ lastEvent'.arg \notin pendingRequests']_vars
    /\ [][\A id \in Ids :
            (currentState = "CLOSED" /\ id \in pendingSubscriptions
                /\ ~Completed(id) /\ outcome'[id] # NoResponse) =>
                outcome'[id].code = REQUEST_TIMEOUT]_vars

C13_OpenedMeansConnected ==
    (opened /\ lastEvent = [type |-> "start", arg |-> 1, ok |-> TRUE]
            /\ messageCounter = 0 /\ ~isConnectionClosed[1]) =>
        currentState = "CONNECTED"

\* C14: after an open event has been handled the state is CONNECTED, the
\* send queue is empty, every request that was queued is in the in-flight
\* table and the retry counter is 0.
C14_AfterOpen ==
    [][lastEvent'.type = "open" =>
          /\ currentState' = "CONNECTED"
          /\ pendingSubscriptions' = {}
          /\ \A id \in pendingSubscriptions :
                ~Completed(id) => id \in pendingRequests'
          /\ reconnectAttempts' = 0]_vars

\* C15: the callback is invoked in a step exactly when the step changes the
\* connection state, with the old and the new state; so every recorded pair
\* has different components, each pair starts where the previous one ended,
\* the first pair is (INIT, CONNECTING) and the last ends in the current
\* state.
C15_CallbackPerChange ==
    /\ [][(currentState' # currentState) <=> (stateChanges' # stateChanges)]_vars
    /\ [][stateChanges' # stateChanges =>
            stateChanges' =
                Append(stateChanges, <<currentState, currentState'>>)]_vars
    /\ [](/\ Len(stateChanges) >= 1
          /\ stateChanges[1] = <<"INIT", "CONNECTING">>
          /\ stateChanges[Len(stateChanges)][2] = currentState
          /\ \A i \in 1 .. Len(stateChanges) :
                /\ stateChanges[i][1] # stateChanges[i][2]
                /\ i > 1 => stateChanges[i][1] = stateChanges[i - 1][2])

\* C15 witness: the callback has seen the engine connect, lose the channel
\* and close, and the last event was an open event that changed nothing
C15_Witness ==
    /\ Len(stateChanges) >= 5
    /\ \E i \in 1 .. Len(stateChanges) : stateChanges[i][2] = "CLOSED"
    /\ currentState = "CONNECTED"
    /\ lastEvent.type = "message"

\* C16: a response frame whose id is not in the in-flight table changes
\* nothing: no request is completed, the tables, the timers, the connection
\* state and the retry counter stay as they are and nothing is written.
C16_UnknownResponseDropped ==
    [][(lastEvent'.type = "message"
          /\ lastEvent'.arg \notin pendingRequests) =>
          UNCHANGED <<pendingRequests, pendingSubscriptions, response, timer,
                      outcome, currentState, reconnectAttempts, written,
                      isConnectionOpen, messageCounter, channel,
                      reconnectTimers>>]_vars

\* C16 witness: a frame for a request still in the send queue was dropped
C16_Witness ==
    /\ lastEvent.type = "message" /\ ~lastEvent.ok
    /\ lastEvent.arg \in pendingSubscriptions
    /\ Issued(lastEvent.arg) /\ ~Completed(lastEvent.arg)

\* an engine on a concrete channel whose channel has closed and which has
\* handled no open event since: the close counted one attempt and only
\* handleConnectionOpen resets the count
NoOpenSinceClose ==
    /\ ~hasFactory
    /\ isConnectionClosed[channel]
    /\ reconnectAttempts > 0

\* C34: an engine given a concrete channel never obtains another channel;
\* if no open event was handled since the channel closed, the state is
\* CLOSED when the retry timer has fired, and it stays CLOSED as long as
\* no open event is handled.
C34_ConcreteChannelEndsClosed ==
    /\ [][~hasFactory => channel' = channel]_vars
    /\ [][(NoOpenSinceClose /\ lastEvent'.type = "retry") =>
              currentState' = "CLOSED"]_vars
    /\ [][(~hasFactory /\ currentState = "CLOSED"
            /\ lastEvent'.type # "open") =>
              currentState' = "CLOSED"]_vars

\* C34 witness: the timer of an engine without a factory found the state
\* RECONNECTING and closed the engine
C34_Witness ==
    /\ ~hasFactory
    /\ lastEvent = [type |-> "retry", arg |-> 1, ok |-> FALSE]
    /\ isConnectionClosed[1]
    /\ currentState = "CLOSED"

\* C35: the retry counter never exceeds the configured maxRetries, and
\* with maxRetries = 0 the first close event of the channel sets the state
\* CLOSED and arms no reconnection timer.
C35_RetriesBoundedByOption ==
    /\ [](reconnectAttempts <= maxRetries)
    /\ [][(maxRetries = 0 /\ lastEvent'.type = "close" /\ lastEvent'.ok) =>
              /\ currentState' = "CLOSED"
              /\ reconnectTimers' = reconnectTimers]_vars

\* C37: the retry counter lies between 0 and the configured maxRetries,
\* and the factory has been called at most maxRetries times since the
\* last open event was handled.
C37_CounterAndFactoryCallsBounded ==
    /\ reconnectAttempts \in 0 .. maxRetries
    /\ observed.factoryCalls <= maxRetries

\* C38: once an open event has been handled while the state was
\* RECONNECTING and the retry timer armed, the timer's firing obtains no
\* channel and leaves the state as it is.
C38_TimerAfterOpenHasNoEffect ==
    [][(observed.openedWhile /\ reconnectTimers' < reconnectTimers) =>
          /\ channel' = channel
          /\ currentState' = currentState]_vars

\* C39: no request is written to a channel more than once.
C39_WrittenAtMostOnce ==
    \A i, j \in DOMAIN written :
        written[i].id = written[j].id => i = j

\* C40: the listeners of a channel the engine has replaced change neither
\* the state, nor the retry counter, nor the pending tables, and write
\* nothing.
C40_SupersededChannelIsInert ==
    [][(observed'.listener # 0 /\ observed'.listener < channel) =>
          UNCHANGED <<currentState, reconnectAttempts, pendingRequests,
                      pendingSubscriptions, written>>]_vars

Next ==
    \/ Call
    \/ \E id \in Ids : Timeout(id)
    \/ \E c \in Channels : handleConnectionClose(c)
    \/ \E c \in Channels : handleConnectionOpen(c)
    \/ \E c \in Channels, f \in PeerFrames : handleMessage(c, f)
    \/ ReconnectTimer

Spec == Init /\ [][Next]_vars

\* the same engine observed through an onStateChange callback
CallbackSpec == InitCallback /\ [][Next]_vars

(* ------------- a handler's error on its way to the remote caller -------- *)
\* a handler is about to throw one of the values
ErrorInit ==
    /\ thrown \in ThrownValues
    /\ raised = NotRaised
    /\ EngineIdle
    /\ PeerIdle
    /\ RestIdle

\* the handler throws; invoke's catch block builds the frame, the frame
\* crosses the channel, the caller's proxy raises the error
Raise ==
    /\ raised = NotRaised
    /\ raised' = raisedFor(thrown)
    /\ UNCHANGED <<thrown, engineVars, peerVars, restVars>>

ErrorNext == Raise

ErrorSpec == ErrorInit /\ [][ErrorNext]_vars

\* C19: for every error thrown by a handler that carries a code, the error
\* raised at the caller has exactly that code, that message and that data.
C19_CodeMessageDataPreserved ==
    (raised # NotRaised /\ thrown.kind \in ErrorKinds /\ thrown.coded)
        => /\ raised.kind = "Error"
           /\ raised.code = thrown.code
           /\ raised.message = thrown.message
           /\ raised.data = thrown.data

\* the handler threw an error object without a code and the caller's call
\* has raised
UncodedRaised ==
    /\ raised # NotRaised
    /\ thrown.kind \in ErrorKinds
    /\ ~thrown.coded

\* the code and type the kind of an error without a code is mapped to
KindCode(kind) ==
    IF kind = "SyntaxError" THEN -32700
    ELSE IF kind = "TypeError" THEN -32602 ELSE -32603

KindType(kind) ==
    IF kind \in {"SyntaxError", "TypeError"} THEN "PROTOCOL" ELSE "SYSTEM"

\* C21 as stated: a handler error without a code is mapped by its kind
\* (SyntaxError: -32700 PROTOCOL, TypeError: -32602 PROTOCOL, other: -32603
\* SYSTEM) and the caller sees the handler's message in each case.
C21_UncodedMappedByKind ==
    UncodedRaised
        => /\ raised.kind = "Error"
           /\ raised.code = KindCode(thrown.kind)
           /\ raised.type = KindType(thrown.kind)
           /\ raised.message = thrown.message

\* C21 amended: the same mapping, and the caller sees the handler's
\* message except that an error that is neither a SyntaxError nor a
\* TypeError and has an empty message arrives as "Internal error".
C21_UncodedMappedByKindOrDefault ==
    UncodedRaised
        => /\ raised.kind = "Error"
           /\ raised.code = KindCode(thrown.kind)
           /\ raised.type = KindType(thrown.kind)
           /\ raised.message =
                 IF thrown.kind = "Error" /\ thrown.message = ""
                   THEN "Internal error" ELSE thrown.message

\* a TypeError without a code has reached the caller as -32602
C21_Witness ==
    /\ UncodedRaised
    /\ thrown.kind = "TypeError"
    /\ thrown.message = "boom"
    /\ raised.code = -32602

\* C20: the type of the error presented to the caller is the type the
\* handler's error carries when it carries one, otherwise the type derived
\* from the code (-32700, -32600: PROTOCOL; -32601, -32602: BUSINESS;
\* -32000, -32001: NETWORK; every other code: SYSTEM).
C20_TypeSuppliedOrDerived ==
    (raised.kind = "Error" /\ thrown.kind # "null")
        => raised.type = IF thrown.type # Undefined
                            THEN thrown.type
                            ELSE typeOfCode(raised.code)

(* ------------- two engines joined by an open duplex channel ------------- *)
\* Both engines run on a channel that is open and stays open, whose writes
\* succeed and which delivers frames in order; no request timer fires.
\* Each side routes one method whose handler, given n > 1, calls the same
\* method of the other side with n - 1 through invoke and returns when
\* that call returns; given n <= 1 it returns or throws at once.

\* the calls the application has made on both sides
RootCalls ==
    {<<p, i>> \in Peers \X (1 .. MaxPeerCalls) :
        i <= Len(pOutcome[p]) /\ pOutcome[p][i].by = "user"}

\* handlers of peer p are suspended on an outbound call
Busy(p) == \E h \in suspended : h.peer = p

PeerInit(behaviours) ==
    /\ leaf \in behaviours
    /\ wire = [p \in Peers |-> <<>>]
    /\ pCounter = [p \in Peers |-> 0]
    /\ pPending = [p \in Peers |-> {}]
    /\ pOutcome = [p \in Peers |-> <<>>]
    /\ suspended = {}
    /\ pEvent = [type |-> "open", peer |-> "A", busy |-> FALSE,
                 answer |-> -1, threw |-> FALSE]
    /\ EngineIdle
    /\ ErrorIdle
    /\ RestIdle

\* createMethodProxy on an open channel: take an id, write the request,
\* enter it in the in-flight table (the application calls the method)
RootCall(p, n) ==
    /\ Cardinality(RootCalls) < MaxRootCalls
    /\ LET requestId == pCounter[p] IN
       /\ pCounter' = [pCounter EXCEPT ![p] = postIncrement(@)]
       /\ wire' = [wire EXCEPT
                     ![Other(p)] = Append(@, RequestFrame(requestId, n))]
       /\ pPending' = [pPending EXCEPT ![p] = @ \cup {requestId}]
       /\ pOutcome' = [pOutcome EXCEPT
                         ![p] = Append(@, [by |-> "user", n |-> n,
                                           frame |-> NoResponse])]
       /\ pEvent' = [type |-> "call", peer |-> p, busy |-> Busy(p),
                     answer |-> -1, threw |-> FALSE]
    /\ UNCHANGED <<leaf, suspended, engineVars, errVars, restVars>>

\* handleMessage for a request frame: invoke runs the handler
DispatchRequest(p, f) ==
    IF f.n > 1
      THEN \* the handler calls the other side and is suspended
           LET requestId == pCounter[p] IN
           /\ pCounter' = [pCounter EXCEPT ![p] = postIncrement(@)]
           /\ wire' = [wire EXCEPT
                         ![p] = Tail(@),
                         ![Other(p)] =
                             Append(@, RequestFrame(requestId, f.n - 1))]
           /\ pPending' = [pPending EXCEPT ![p] = @ \cup {requestId}]
           /\ pOutcome' = [pOutcome EXCEPT
                             ![p] = Append(@, [by |-> "handler",
                                               n |-> f.n - 1,
                                               frame |-> NoResponse])]
           /\ suspended' = suspended \cup
                             {[peer |-> p, request |-> f.id,
                               awaiting |-> requestId]}
           /\ pEvent' = [type |-> "request", peer |-> p, busy |-> Busy(p),
                         answer |-> -1, threw |-> FALSE]
      ELSE \* the handler returns or throws at once; the frame invoke
           \* returns is written, a rejection of invoke writes nothing
           LET out == invoke(f.id, leaf = "return",
                             IF leaf = "throwNull" THEN ThrownNull
                                                   ELSE LeafError) IN
           /\ wire' = [wire EXCEPT
                         ![p] = Tail(@),
                         ![Other(p)] = IF out.kind = "rejected"
                                         THEN @ ELSE Append(@, out)]
           /\ pEvent' = [type |-> "request", peer |-> p, busy |-> Busy(p),
                         answer |-> f.id, threw |-> leaf # "return"]
           /\ UNCHANGED <<pCounter, pPending, pOutcome, suspended>>

\* handleMessage for a response frame: dropped when its id is not in
\* flight, else handleResponse, after which the waiting caller goes on.
\* A handler that was waiting returns the result, or rethrows the
\* caller's error, and its own response frame is written.
DispatchResponse(p, f) ==
    IF f.id \notin pPending[p]
      THEN /\ wire' = [wire EXCEPT ![p] = Tail(@)]
           /\ pEvent' = [type |-> "drop", peer |-> p, busy |-> Busy(p),
                         answer |-> -1, threw |-> FALSE]
           /\ UNCHANGED <<pCounter, pPending, pOutcome, suspended>>
      ELSE
        /\ pPending' = [pPending EXCEPT ![p] = @ \ {f.id}]
        /\ pOutcome' = [pOutcome EXCEPT ![p][f.id + 1].frame = f]
        /\ UNCHANGED pCounter
        /\ IF \E h \in suspended : h.peer = p /\ h.awaiting = f.id
             THEN LET h == CHOOSE x \in suspended :
                               x.peer = p /\ x.awaiting = f.id
                      out == invoke(h.request, f.kind = "result",
                                    callerError(f))
                  IN /\ suspended' = suspended \ {h}
                     /\ wire' = [wire EXCEPT
                                   ![p] = Tail(@),
                                   ![Other(p)] =
                                       IF out.kind = "rejected"
                                         THEN @ ELSE Append(@, out)]
                     /\ pEvent' = [type |-> "response", peer |-> p,
                                   busy |-> Busy(p),
                                   answer |-> h.request,
                                   threw |-> f.kind # "result"]
             ELSE /\ suspended' = suspended
                  /\ wire' = [wire EXCEPT ![p] = Tail(@)]
                  /\ pEvent' = [type |-> "response", peer |-> p,
                                busy |-> Busy(p), answer |-> -1,
                                threw |-> FALSE]

\* the message listener of peer p takes the next frame off the channel
Dispatch(p) ==
    /\ wire[p] # <<>>
    /\ dispatchFree(Busy(p))
    /\ IF Head(wire[p]).kind = "request"
         THEN DispatchRequest(p, Head(wire[p]))
         ELSE DispatchResponse(p, Head(wire[p]))
    /\ UNCHANGED <<leaf, engineVars, errVars, restVars>>

PeerNext ==
    \/ \E p \in Peers, n \in 1 .. MaxDepth : RootCall(p, n)
    \/ \E p \in Peers : Dispatch(p)

\* handlers that may throw anything at the end of the recursion
PeerSpec == PeerInit(LeafBehaviours) /\ [][PeerNext]_vars

\* handlers that return or throw an Error object; every frame that has
\* been delivered to a listener is eventually dispatched
RecursionSpec ==
    /\ PeerInit({"return", "throwError"})
    /\ [][PeerNext]_vars
    /\ \A p \in Peers : WF_vars(Dispatch(p))

\* some call of some peer has not been answered
Unanswered == \E p \in Peers : pPending[p] # {}

\* C17: while handlers are suspended on outbound calls the engine keeps
\* dispatching inbound frames, so the calls under way, mutually recursive
\* calls between the two peers included, are all answered in the end:
\* no call stays unanswered for ever.
C17_RecursionCompletes == Unanswered ~> ~Unanswered

\* a call of the application that recursed to the full depth has returned
\* a result, and the frame just dispatched found a handler suspended
C17_Witness ==
    /\ pEvent.busy
    /\ \E p \in Peers : \E i \in 1 .. MaxPeerCalls :
          /\ i <= Len(pOutcome[p])
          /\ pOutcome[p][i].by = "user"
          /\ pOutcome[p][i].n = MaxDepth
          /\ pOutcome[p][i].frame.kind = "result"

\* C18: a handler that throws produces one error response carrying the
\* id of its request; the tables and the other calls are left alone.
C18_ThrowAnsweredWithError ==
    [][pEvent'.threw =>
        LET p == pEvent'.peer
            q == Other(pEvent'.peer) IN
        /\ Len(wire'[q]) = Len(wire[q]) + 1
        /\ wire'[q][Len(wire'[q])].kind = "error"
        /\ wire'[q][Len(wire'[q])].id = pEvent'.answer
        /\ pEvent'.type = "request" =>
              UNCHANGED <<pCounter, pPending, pOutcome, suspended>>
        /\ pCounter'[q] = pCounter[q]
        /\ pPending'[q] = pPending[q]
        /\ pOutcome'[q] = pOutcome[q]]_vars


\* C33: whenever the handler of an inbound request finishes, by returning
\* or by throwing whatever value, the engine writes exactly one frame to
\* the channel, carrying the request's id and a result or an error.
C33_OneResponsePerRequest ==
    [][pEvent'.answer # -1 =>
        LET q == Other(pEvent'.peer) IN
        /\ Len(wire'[q]) = Len(wire[q]) + 1
        /\ SubSeq(wire'[q], 1, Len(wire[q])) = wire[q]
        /\ wire'[q][Len(wire'[q])].id = pEvent'.answer
        /\ wire'[q][Len(wire'[q])].kind \in {"result", "error"}]_vars
(* ------------------- inbound messages of one engine -------------------- *)
\* An engine made by open() on an open channel, which makes one call of
\* its own, and a listener made by lib/handler.js; a peer sends each of
\* them raw messages.  The writes of the answers succeed.
InboundInit ==
    /\ stateChangeCallback = FALSE
    /\ opened = TRUE
    /\ EngineInit
    /\ ErrorIdle
    /\ PeerIdle
    /\ RestIdle

\* handleMessage of the engine for text that is not JSON and for a request
\* frame.  JSON.parse is not guarded: for text that is not JSON the
\* promise of handleMessage is rejected and nothing is written.
handleInbound(raw) ==
    /\ inEvent.n < MaxInbound
    /\ raw.kind \in {"garbage", "request"}
    /\ IF raw.kind = "garbage"
         THEN /\ UNCHANGED <<answers, applied>>
              /\ inEvent' = [n |-> inEvent.n + 1, engine |-> "open",
                             raw |-> raw, rejected |-> TRUE]
         ELSE LET o == methodHandlerApply(InboundRouting, raw.method,
                                          raw.params)
                  frame == invoke(raw.id, o.returned, o.error)
              IN /\ answers' = IF frame.kind = "rejected"
                                 THEN answers ELSE Append(answers, frame)
                 /\ applied' = IF o.applied
                                 THEN Append(applied,
                                             [engine |-> "open",
                                              method |-> raw.method,
                                              args |-> o.args])
                                 ELSE applied
                 /\ inEvent' = [n |-> inEvent.n + 1, engine |-> "open",
                                raw |-> raw,
                                rejected |-> frame.kind = "rejected"]
    /\ UNCHANGED <<hAnswers, engineVars, errVars, peerVars, replyVars,
                   routerVars, chainVars, proxyVars, contextVars>>

\* rpc_handler of lib/handler.js: the frame invoke returns is written
rpc_handler(raw) ==
    /\ inEvent.n < MaxInbound
    /\ LET o == handlerInvoke(InboundRouting, raw) IN
       /\ hAnswers' = Append(hAnswers, o.frame)
       /\ applied' = IF o.applied
                       THEN Append(applied,
                                   [engine |-> "handler",
                                    method |-> raw.method,
                                    args |-> o.args])
                       ELSE applied
       /\ inEvent' = [n |-> inEvent.n + 1, engine |-> "handler",
                      raw |-> raw, rejected |-> FALSE]
    /\ UNCHANGED <<answers, engineVars, errVars, peerVars, replyVars,
                   routerVars, chainVars, proxyVars, contextVars>>

InboundNext ==
    \/ (messageCounter = 0 /\ Call)
    \/ \E f \in PeerFrames : handleMessage(1, f)
    \/ \E raw \in RawMessages : handleInbound(raw)
    \/ \E raw \in RawMessages : rpc_handler(raw)

InboundSpec == InboundInit /\ [][InboundNext]_vars

\* the frame written last by the listener that handled the last message
LastAnswer ==
    IF inEvent.engine = "open" THEN answers[Len(answers)]
                               ELSE hAnswers[Len(hAnswers)]

\* C22: for a message that is not parseable JSON the engine writes one
\* error response with id -1 and code -32700, and its pending tables and
\* connection state are unchanged.
C22_GarbageAnswered ==
    [][(inEvent'.n # inEvent.n /\ inEvent'.engine = "open"
            /\ inEvent'.raw.kind = "garbage")
        => /\ Len(answers') = Len(answers) + 1
           /\ answers'[Len(answers')].kind = "error"
           /\ answers'[Len(answers')].id = -1
           /\ answers'[Len(answers')].code = -32700
           /\ UNCHANGED <<pendingRequests, pendingSubscriptions,
                          currentState>>]_vars

Null == "<null>"   \* the JavaScript value null

\* what a handler of the remote side returns
ReturnValues == {Undefined, Null, "v"}

\* a success frame as read back from JSON; a result member that is absent
\* reads as undefined
SuccessFrame(id, result) == [id |-> id, kind |-> "result", result |-> result]

\* invoke of lib/open.js on the remote side: undefined becomes null
invokeResult(id, result) ==
    SuccessFrame(id, IF result = Undefined THEN Null ELSE result)

\* invoke of lib/handler.js on the remote side: {id, result: r}, from
\* which JSON.stringify leaves an undefined result out
handlerResult(id, result) == SuccessFrame(id, result)

\* the frames a peer can answer a call with
ReplyFrames ==
    {SuccessFrame(0, r) : r \in ReturnValues}
    \cup {errorFrame(0, c, m, t, d) :
            c \in ThrownCodes, m \in ThrownMessages, t \in ThrownTypes,
            d \in ThrownData}

\* what the remote side did: a handler behind lib/open.js or behind
\* lib/handler.js returned a value, or the peer wrote a frame of its own
Replies ==
    {[by |-> e, returns |-> v, frame |-> NoResponse] :
        e \in {"open", "handler"}, v \in ReturnValues}
    \cup {[by |-> "peer", returns |-> Undefined, frame |-> f] :
            f \in ReplyFrames}

\* the frame that reaches the caller
ReplyFrame(r) ==
    IF r.by = "open" THEN invokeResult(0, r.returns)
    ELSE IF r.by = "handler" THEN handlerResult(0, r.returns)
    ELSE r.frame

\* createMethodProxy after the wait: an error member raises, otherwise
\* rpcRequest.response.result is returned as it is
complete(frame) ==
    IF frame.kind = "error"
      THEN [kind |-> "raised", value |-> Undefined,
            error |-> callerError(frame)]
      ELSE [kind |-> "returned", value |-> frame.result,
            error |-> NotRaised]

\* the caller is still waiting
NotCompleted == [kind |-> "pending"]

ReplyInit ==
    /\ reply \in Replies
    /\ completion = NotCompleted
    /\ EngineIdle
    /\ ErrorIdle
    /\ PeerIdle
    /\ InboundIdle
    /\ RouterIdle
    /\ ChainIdle
    /\ ProxyIdle
    /\ ContextIdle

\* the response arrives and the caller's call ends
Complete ==
    /\ completion = NotCompleted
    /\ completion' = complete(ReplyFrame(reply))
    /\ UNCHANGED <<reply, engineVars, errVars, peerVars, inboundVars,
                   routerVars, chainVars, proxyVars, contextVars>>

ReplyNext == Complete

ReplySpec == ReplyInit /\ [][ReplyNext]_vars

\* C24: a call answered by a success frame returns the frame's result, and
\* null when the result is absent or undefined (the remote handler
\* returned undefined, or the frame has no result member); a call answered
\* by an error frame raises an error with the frame's message, code, data
\* and type.
C24_ResultOrNullOrError ==
    completion.kind # "pending" =>
        LET frame == ReplyFrame(reply) IN
        IF frame.kind = "error"
          THEN /\ completion.kind = "raised"
               /\ completion.error.message = frame.message
               /\ completion.error.code = frame.code
               /\ completion.error.data = frame.data
               /\ completion.error.type = frame.type
          ELSE /\ completion.kind = "returned"
               /\ completion.value =
                     IF reply.by = "peer"
                       THEN IF frame.result = Undefined
                              THEN Null ELSE frame.result
                       ELSE IF reply.returns = Undefined
                              THEN Null ELSE reply.returns

(* ----------------- the resolution of one method name ------------------- *)
Segments == {"a", "b"}

\* the dotted names requests carry, as sequences of segments
MethodNames == UNION {[1 .. n -> Segments] : n \in 1 .. MaxSegments}

\* the keys of the namespaces: "a", "b" and the dotted key "a.b"
RoutingKeys == {<<"a">>, <<"b">>, <<"a", "b">>}

\* the namespaces over a set of nodes: every non-empty set of keys, every
\* assignment of nodes to them
NamespacesOver(nodes) ==
    {Namespace(f) :
        f \in UNION {[K -> nodes] : K \in (SUBSET RoutingKeys) \ {{}}}}

\* routing trees two levels deep whose leaves are handlers
RoutingTrees ==
    NamespacesOver({Handler("return")}
                   \cup NamespacesOver({Handler("return")}))

\* nothing has been resolved yet
Unresolved == [done |-> FALSE]

RouterInit ==
    /\ routing \in RoutingTrees
    /\ method \in MethodNames
    /\ resolved = Unresolved
    /\ routed = Unresolved
    /\ EngineIdle
    /\ ErrorIdle
    /\ PeerIdle
    /\ InboundIdle
    /\ ReplyIdle
    /\ ChainIdle
    /\ ProxyIdle
    /\ ContextIdle

\* a request for the method arrives: lib/handler.js resolves it with
\* resolve_method, the engine with its method router
Resolve ==
    /\ ~resolved.done
    /\ resolved' = [done |-> TRUE, result |-> resolve_method(routing, method)]
    /\ routed' = [done |-> TRUE, result |-> route(routing, method)]
    /\ UNCHANGED <<routing, method, engineVars, errVars, peerVars,
                   inboundVars, replyVars, chainVars, proxyVars,
                   contextVars>>

RouterNext == Resolve

RouterSpec == RouterInit /\ [][RouterNext]_vars

\* key is a dotted prefix of the name
IsPrefix(key, name) ==
    Len(key) <= Len(name) /\ SubSeq(name, 1, Len(key)) = key

\* the keys of the namespace that are dotted prefixes of the name
PrefixKeys(node, name) == {k \in DOMAIN node.keys : IsPrefix(k, name)}

\* every key on the path is the longest of the keys of its namespace that
\* are prefixes of what remained of the name
RECURSIVE FollowsLongest(_, _, _)
FollowsLongest(node, name, path) ==
    \/ path = <<>>
    \/ /\ node.kind = "namespace"
       /\ Head(path) \in PrefixKeys(node, name)
       /\ \A k \in PrefixKeys(node, name) : Len(k) <= Len(Head(path))
       /\ FollowsLongest(node.keys[Head(path)],
                         SliceFrom(name, Len(Head(path))), Tail(path))

\* C25: at a namespace, of the keys that equal a dotted prefix of the
\* remaining name the longest is chosen; a key equal to the full dotted
\* name that holds a handler wins over every nested route to that name.
C25_LongestKeyChosen ==
    resolved.done =>
        /\ resolved.result.found =>
              FollowsLongest(routing, method, resolved.result.path)
        /\ (method \in DOMAIN routing.keys
                /\ routing.keys[method].kind = "handler")
              => /\ resolved.result.found
                 /\ resolved.result.path = <<method>>

\* keys "a" and "a.b" are both present, "a" leads to a namespace that has
\* "b", and the method a.b was resolved to the entry of "a.b"
C25_Witness ==
    /\ resolved.done
    /\ method = <<"a", "b">>
    /\ {<<"a">>, <<"a", "b">>} \subseteq DOMAIN routing.keys
    /\ routing.keys[<<"a">>].kind = "namespace"
    /\ <<"b">> \in DOMAIN routing.keys[<<"a">>].keys
    /\ resolved.result.found
    /\ resolved.result.path = << <<"a", "b">> >>

\* the segments of the keys of a path, one after the other
RECURSIVE Consumed(_)
Consumed(path) ==
    IF path = <<>> THEN <<>> ELSE Head(path) \o Consumed(Tail(path))

UndefinedValue == [kind |-> "undefined", text |-> <<>>]
NullValue == [kind |-> "null", text |-> <<>>]
TextValue(t) == [kind |-> "text", text |-> t]

\* the argument of the call: client.transform('hello')
Hello == <<"h", "e", "l", "l", "o">>

\* String.prototype.toUpperCase on the characters in use
toUpperCase(t) ==
    [i \in DOMAIN t |->
        CASE t[i] = "h" -> "H"
          [] t[i] = "e" -> "E"
          [] t[i] = "l" -> "L"
          [] t[i] = "o" -> "O"
          [] OTHER -> t[i]]

\* the elements of the chains:
\*   upper    this.params[0] = text.toUpperCase()
\*   bang     this.params[0] = text + '!'
\*   bracket  return `[${text}]`
\*   echo     return text
\*   null     return null
\*   nothing  returns without a value
\*   throw    throws an error carrying a code
ElementKinds ==
    {"upper", "bang", "bracket", "echo", "null", "nothing", "throw"}

\* the error the throwing element throws
ElementError ==
    ThrownValue("Error", TRUE, -32000, "m", Undefined, Undefined)

\* one element applied to the argument text: the first parameter as the
\* element leaves it, what it returns, whether it throws
element(kind, text) ==
    [params |-> CASE kind = "upper" -> toUpperCase(text)
                  [] kind = "bang" -> Append(text, "!")
                  [] OTHER -> text,
     returns |-> CASE kind = "bracket" -> TextValue(<<"[">> \o text \o <<"]">>)
                   [] kind = "echo" -> TextValue(text)
                   [] kind = "null" -> NullValue
                   [] OTHER -> UndefinedValue,
     throws |-> kind = "throw"]

Chains == UNION {[1 .. n -> ElementKinds] : n \in 1 .. MaxChain}

\* the error of a chain whose intermediate element returned a value
ChainMessage == "Only the last handler in the chain can return a value"
ChainError ==
    ThrownValue("Error", TRUE, -32603, ChainMessage, Undefined, Undefined)

\* the run of a chain: the element to run next, the first parameter as it
\* stands, the argument each element received and the value each element
\* returned so far, the error that ended the run, the end of the caller's
\* call
Run(kind, at, params, seen, returns, error, call) ==
    [kind |-> kind, at |-> at, params |-> params, seen |-> seen,
     returns |-> returns, error |-> error, call |-> call]

\* the chain as it would be if it went on to the next element after an
\* element threw
runElementOn_pastThrow(c, run, argument) ==
    LET e == element(c[run.at], argument)
        seen_ == Append(run.seen, argument)
    IN  IF e.throws /\ run.at < Len(c)
          THEN Run("running", run.at + 1, e.params, seen_, run.returns,
                   NotRaised, run.call)
        ELSE IF e.throws
          THEN Run("raised", run.at, e.params, seen_, run.returns,
                   ElementError, run.call)
        ELSE IF run.at < Len(c) /\ e.returns.kind = "text"
          THEN Run("raised", run.at, e.params, seen_,
                   Append(run.returns, e.returns), ChainError, run.call)
        ELSE IF run.at = Len(c)
          THEN Run("returned", run.at, e.params, seen_,
                   Append(run.returns, e.returns), NotRaised, run.call)
        ELSE Run("running", run.at + 1, e.params, seen_,
                 Append(run.returns, e.returns), NotRaised, run.call)

\* an element applied to the text given as its argument; a value from an
\* element that is not the last ends the run with the chain's error, the
\* last element's return ends it with that value
runElementOn(c, run, argument) ==
    LET e == element(c[run.at], argument)
        seen_ == Append(run.seen, argument)
    IN  IF e.throws
          THEN Run("raised", run.at, e.params, seen_, run.returns,
                   ElementError, run.call)
        ELSE IF run.at < Len(c) /\ e.returns.kind = "text"
          THEN Run("raised", run.at, e.params, seen_,
                   Append(run.returns, e.returns), ChainError, run.call)
        ELSE IF run.at = Len(c)
          THEN Run("returned", run.at, e.params, seen_,
                   Append(run.returns, e.returns), NotRaised, run.call)
        ELSE Run("running", run.at + 1, e.params, seen_,
                 Append(run.returns, e.returns), NotRaised, run.call)

\* the chain as it would be if every element were applied to the
\* arguments of the request
runElement_requestArgs(c, run) == runElementOn(c, run, Hello)

\* the next element is applied to the params as they stand
runElement(c, run) == runElementOn(c, run, run.params)

\* the result member invoke writes as it would be if an undefined result
\* were left as it is
resultMember_asReturned(result) == result

\* invoke: result === undefined ? null : result
resultMember(result) ==
    IF result.kind = "undefined" THEN NullValue ELSE result

\* invoke around a finished run: the frame written back
chainFrame(id, run) ==
    IF run.kind = "returned"
      THEN SuccessFrame(id, resultMember(run.returns[Len(run.returns)]))
      ELSE invokeCatch(id, run.error)

(* ------------------------------------------------------------------ *)
(* ChainSpec: one call of a method whose routing entry is a chain       *)
(* ------------------------------------------------------------------ *)

ChainInit ==
    /\ chain \in Chains
    /\ chainOutcome = Run("running", 1, Hello, <<>>, <<>>, NotRaised,
                          NotCompleted)
    /\ EngineIdle
    /\ ErrorIdle
    /\ PeerIdle
    /\ InboundIdle
    /\ ReplyIdle
    /\ RouterIdle
    /\ ProxyIdle
    /\ ContextIdle

\* the chain runs its next element
RunElement ==
    /\ chainOutcome.kind = "running"
    /\ chainOutcome' = runElement(chain, chainOutcome)
    /\ UNCHANGED <<chain, engineVars, errVars, peerVars, inboundVars,
                   replyVars, routerVars, proxyVars, contextVars>>

\* invoke writes the response and the caller's call ends
Answer ==
    /\ chainOutcome.kind \in {"returned", "raised"}
    /\ chainOutcome.call = NotCompleted
    /\ chainOutcome' =
         [chainOutcome EXCEPT
            !.call = complete(chainFrame(InboundId, chainOutcome))]
    /\ UNCHANGED <<chain, engineVars, errVars, peerVars, inboundVars,
                   replyVars, routerVars, proxyVars, contextVars>>

ChainNext == RunElement \/ Answer

ChainSpec == ChainInit /\ [][ChainNext]_vars

\* the caller's call has ended
Answered == chainOutcome.kind # "idle" /\ chainOutcome.call.kind # "pending"

\* an element that is not the last returned a value
IntermediateReturned ==
    \E i \in 1 .. Len(chain) - 1 :
        /\ i <= Len(chainOutcome.returns)
        /\ chainOutcome.returns[i].kind = "text"

\* the call failed with the chain's error
FailedWithChainError ==
    /\ chainOutcome.call.kind = "raised"
    /\ chainOutcome.call.error.code = -32603
    /\ chainOutcome.call.error.message = ChainMessage

\* the call returned the value v
CallReturned(v) ==
    /\ chainOutcome.call.kind = "returned"
    /\ chainOutcome.call.value = v

\* some element of the chain threw
ElementThrew == chainOutcome.kind = "raised" /\ chainOutcome.error = ElementError

C27_WitnessFailed ==
    /\ Answered
    /\ chain = <<"echo", "echo">>
    /\ FailedWithChainError

\* C28: every element of a chain after the first receives as its argument
\* the first parameter as the element before it left it, and the chain that
\* uppercases, appends '!' and brackets answers "hello" with "[HELLO!]".
C28_ParamsFlowDownTheChain ==
    chainOutcome.kind # "idle" =>
        /\ \A i \in 1 .. Len(chainOutcome.seen) - 1 :
              chainOutcome.seen[i + 1] =
                  element(chain[i], chainOutcome.seen[i]).params
        /\ (Len(chainOutcome.seen) > 0 => chainOutcome.seen[1] = Hello)
        /\ (Answered /\ chain = <<"upper", "bang", "bracket">> =>
              CallReturned(TextValue(<<"[", "H", "E", "L", "L", "O", "!",
                                       "]">>)))

C28_Witness ==
    /\ Answered
    /\ chain = <<"upper", "bang", "bracket">>
    /\ chainOutcome.seen = <<Hello, <<"H", "E", "L", "L", "O">>,
                             <<"H", "E", "L", "L", "O", "!">> >>

(* ------------------------------------------------------------------ *)
(* ProxySpec: the method proxies createMethodProxy hands out            *)
(* ------------------------------------------------------------------ *)

\* a property name is the sequence of its characters; "" is <<>>
EmptyName == <<>>
Dot == "."

\* names that are in the proxy's target, an async function, from the
\* start: its own name (a string) and Function.prototype.call
NameProperty == <<"n", "a", "m", "e">>
CallProperty == <<"c", "a", "l", "l">>
FunctionProperties == {NameProperty, CallProperty}

\* the names read from a proxy
PropertyNames == {<<"a">>, <<"b">>, EmptyName} \cup FunctionProperties

\* Symbol.for("drpc.state") and a symbol of the program's own
STATE_SYMBOL == "drpc.state"
SymbolKeys == {STATE_SYMBOL, "contextKey"}
StoredValues == {"v", "w"}

\* the value of the state property: () => currentState
StateFunction == "<state function>"

\* argument lists of a call
ArgLists == {<<>>, <<"x", "y">>}

\* the root proxy, createMethodProxy("", "")
Root == 0

\* what an expression evaluates to: a proxy, a property of a proxy's
\* target, or nothing yet
ProxyRef(id) == [kind |-> "proxy", id |-> id, of |-> EmptyName]
PropertyRef(id, name) == [kind |-> "property", id |-> id, of |-> name]
NoRef == [kind |-> "none", id |-> 0, of |-> EmptyName]

\* namespace === "" ? methodName : `${namespace}.${methodName}`
fullyQualifiedMethodName(namespace, methodName) ==
    IF namespace = EmptyName THEN methodName
    ELSE namespace \o <<Dot>> \o methodName

\* the fullyQualifiedMethodName of a proxy's closure
methodOf(id) == IF id = Root THEN EmptyName ELSE children[id].fqn

\* the child proxies stored in the target of proxy id under name
cached(id, name) ==
    {i \in DOMAIN children :
        children[i].parent = id /\ children[i].name = name}

\* methodName in target
inTarget(id, name) == name \in FunctionProperties \/ cached(id, name) # {}

\* target[key] of a symbol key
symbolValue(id, key) ==
    IF id = Root /\ key = STATE_SYMBOL THEN StateFunction
    ELSE IF \E e \in symbolStore : e.proxy = id /\ e.key = key
      THEN (CHOOSE e \in symbolStore : e.proxy = id /\ e.key = key).value
    ELSE Undefined

\* the last operation on a proxy: the expression it was applied to, the
\* names read since the root, what the expression now evaluates to
Event(op, before, path, ref, key, value, args, threw) ==
    [op |-> op, before |-> before, path |-> path, ref |-> ref, key |-> key,
     value |-> value, args |-> args, threw |-> threw]

NoEvent == Event("none", NoRef, <<>>, NoRef, "", Undefined, <<>>, FALSE)

ProxyInit ==
    /\ children = <<>>
    /\ symbolStore = {}
    /\ issued = <<>>
    /\ proxyEvent = Event("root", NoRef, <<>>, ProxyRef(Root), "",
                          Undefined, <<>>, FALSE)
    /\ EngineIdle
    /\ ErrorIdle
    /\ PeerIdle
    /\ InboundIdle
    /\ ReplyIdle
    /\ RouterIdle
    /\ ChainIdle
    /\ ContextIdle

\* a new expression starts at the root proxy
FromRoot ==
    /\ proxyEvent.op # "root"
    /\ proxyEvent' = Event("root", NoRef, <<>>, ProxyRef(Root), "",
                           Undefined, <<>>, FALSE)
    /\ UNCHANGED <<children, symbolStore, issued>>
    /\ UNCHANGED <<engineVars, errVars, peerVars, inboundVars, replyVars,
                   routerVars, chainVars, contextVars>>

\* the get trap for a string name
GetName(name) ==
    /\ proxyEvent.ref.kind = "proxy"
    /\ Len(proxyEvent.path) < MaxPath
    /\ LET id == proxyEvent.ref.id
           path_ == Append(proxyEvent.path, name)
       IN  IF name \in FunctionProperties
             THEN /\ proxyEvent' =
                       Event("get", proxyEvent.ref, path_,
                             PropertyRef(id, name), "", Undefined, <<>>,
                             FALSE)
                  /\ UNCHANGED children
           ELSE IF inTarget(id, name)
             THEN /\ proxyEvent' =
                       Event("get", proxyEvent.ref, path_,
                             ProxyRef(CHOOSE i \in cached(id, name) : TRUE),
                             "", Undefined, <<>>, FALSE)
                  /\ UNCHANGED children
           ELSE /\ Len(children) < MaxChildren
                /\ children' =
                     Append(children,
                            [parent |-> id, name |-> name,
                             fqn |-> fullyQualifiedMethodName(methodOf(id),
                                                              name)])
                /\ proxyEvent' =
                     Event("get", proxyEvent.ref, path_,
                           ProxyRef(Len(children) + 1), "", Undefined, <<>>,
                           FALSE)
    /\ UNCHANGED <<symbolStore, issued>>
    /\ UNCHANGED <<engineVars, errVars, peerVars, inboundVars, replyVars,
                   routerVars, chainVars, contextVars>>

\* the get trap for a symbol key: target[key]
GetSymbol(key) ==
    /\ proxyEvent.ref.kind = "proxy"
    /\ proxyEvent' =
         Event("getSymbol", proxyEvent.ref, proxyEvent.path, proxyEvent.ref,
               key, symbolValue(proxyEvent.ref.id, key), <<>>, FALSE)
    /\ UNCHANGED <<children, symbolStore, issued>>
    /\ UNCHANGED <<engineVars, errVars, peerVars, inboundVars, replyVars,
                   routerVars, chainVars, contextVars>>

\* the set trap for a string name: throws '"name" is read-only.'
SetName(name, value) ==
    /\ proxyEvent.ref.kind = "proxy"
    /\ proxyEvent' =
         Event("set", proxyEvent.ref, proxyEvent.path, proxyEvent.ref, "",
               value, <<>>, TRUE)
    /\ UNCHANGED <<children, symbolStore, issued>>
    /\ UNCHANGED <<engineVars, errVars, peerVars, inboundVars, replyVars,
                   routerVars, chainVars, contextVars>>

\* the set trap for a symbol key: target[key] = value; return true.  The
\* state property of the root's target is not writable and not
\* configurable, so the assignment leaves it as it is and the trap's true
\* makes the assignment raise a TypeError.
SetSymbol(key, value) ==
    /\ proxyEvent.ref.kind = "proxy"
    /\ \/ Cardinality(symbolStore) < MaxStored
       \/ \E e \in symbolStore :
             e.proxy = proxyEvent.ref.id /\ e.key = key
    /\ LET id == proxyEvent.ref.id IN
       IF id = Root /\ key = STATE_SYMBOL
         THEN /\ proxyEvent' =
                   Event("setSymbol", proxyEvent.ref, proxyEvent.path,
                         proxyEvent.ref, key, value, <<>>, TRUE)
              /\ UNCHANGED symbolStore
         ELSE /\ proxyEvent' =
                   Event("setSymbol", proxyEvent.ref, proxyEvent.path,
                         proxyEvent.ref, key, value, <<>>, FALSE)
              /\ symbolStore' =
                   {e \in symbolStore : ~(e.proxy = id /\ e.key = key)}
                   \cup {[proxy |-> id, key |-> key, value |-> value]}
    /\ UNCHANGED <<children, issued>>
    /\ UNCHANGED <<engineVars, errVars, peerVars, inboundVars, replyVars,
                   routerVars, chainVars, contextVars>>

\* the request a call of proxy id builds
request(id, args) == [method |-> methodOf(id), params |-> args]

\* the expression is called with the arguments: a proxy builds a request
\* of its method; the target's name is a string and calling it raises a
\* TypeError; Function.prototype.call calls the proxy it was read from
\* with the arguments after the first
CallRef(args) ==
    /\ proxyEvent.ref.kind \in {"proxy", "property"}
    /\ Len(issued) < MaxIssued
    /\ LET ref == proxyEvent.ref IN
       IF ref.kind = "proxy"
         THEN /\ issued' = Append(issued, request(ref.id, args))
              /\ proxyEvent' =
                   Event("call", ref, proxyEvent.path, NoRef, "", Undefined,
                         args, FALSE)
       ELSE IF ref.of = CallProperty
         THEN /\ issued' =
                   Append(issued,
                          request(ref.id,
                                  IF args = <<>> THEN <<>> ELSE Tail(args)))
              /\ proxyEvent' =
                   Event("call", ref, proxyEvent.path, NoRef, "", Undefined,
                         args, FALSE)
       ELSE /\ UNCHANGED issued
            /\ proxyEvent' =
                 Event("call", ref, proxyEvent.path, NoRef, "", Undefined,
                       args, TRUE)
    /\ UNCHANGED <<children, symbolStore>>
    /\ UNCHANGED <<engineVars, errVars, peerVars, inboundVars, replyVars,
                   routerVars, chainVars, contextVars>>

ProxyNext ==
    \/ FromRoot
    \/ \E name \in PropertyNames : GetName(name)
    \/ \E key \in SymbolKeys : GetSymbol(key)
    \/ \E name \in PropertyNames, value \in StoredValues :
          SetName(name, value)
    \/ \E key \in SymbolKeys, value \in StoredValues : SetSymbol(key, value)
    \/ \E args \in ArgLists : CallRef(args)

ProxySpec == ProxyInit /\ [][ProxyNext]_vars

\* the names joined with dots
RECURSIVE JoinDots(_)
JoinDots(names) ==
    IF names = <<>> THEN EmptyName
    ELSE IF Len(names) = 1 THEN names[1]
    ELSE JoinDots(SubSeq(names, 1, Len(names) - 1)) \o <<Dot>>
         \o names[Len(names)]

\* C29: calling what the names s1..sn read from the root proxy evaluate to
\* issues a request whose method is the names joined with dots ("" for
\* the root itself) and whose params is the argument list.
C29_CallIssuesJoinedMethod ==
    proxyEvent.op = "call" =>
        /\ ~proxyEvent.threw
        /\ issued # <<>>
        /\ issued[Len(issued)] =
             [method |-> JoinDots(proxyEvent.path),
              params |-> proxyEvent.args]

\* C30: reading a string-named property of a proxy yields a child proxy,
\* the one stored at the first read; assigning to a string-named property
\* raises an error and leaves the proxy as it was; assigning to a symbol
\* key stores the value, and a read of a stored key returns it.
C30_CachedChildrenReadOnlyNames ==
    [][ /\ proxyEvent'.op = "get" =>
            /\ proxyEvent'.ref.kind = "proxy"
            /\ \A i \in cached(proxyEvent.ref.id,
                               proxyEvent'.path[Len(proxyEvent'.path)]) :
                  proxyEvent'.ref.id = i
        /\ proxyEvent'.op = "set" =>
            /\ proxyEvent'.threw
            /\ UNCHANGED <<children, symbolStore>>
        /\ proxyEvent'.op = "setSymbol" =>
            /\ ~proxyEvent'.threw
            /\ [proxy |-> proxyEvent.ref.id, key |-> proxyEvent'.key,
                value |-> proxyEvent'.value] \in symbolStore'
        /\ proxyEvent'.op = "getSymbol" =>
            \A e \in symbolStore :
                (e.proxy = proxyEvent.ref.id /\ e.key = proxyEvent'.key)
                    => proxyEvent'.value = e.value
      ]_vars

(* ------------------------------------------------------------------ *)
(* ContextSpec: the objects handlers keep data on: the engine's proxy   *)
(* (this.invoke) and the invocation context (this)                      *)
(* ------------------------------------------------------------------ *)

\* two engines, each the result of its own call of open()
Engines == {"A", "B"}

\* symbols the handlers use as keys, and the values they store
ContextKeys == {"contextKey", "otherKey"}
ContextValues == {"value1", "value2"}

\* the inbound requests of engine A whose handlers interleave
Requests == 1 .. MaxInterleaved

\* what the handler of request r stores on its context ('method1-data');
\* 0 stands for a property that was never set
Data(r) == r

\* callMessage.invoke as it would be if the engines shared one proxy
invokeOf_shared(e) == "A"

\* callMessage.invoke: the methodProxy of the open() call whose invoke runs
invokeOf(e) == e

\* the context invoke hands on as it would be if invoke kept one object
newContext_shared(cs) == 1

\* const callMessage = {...rpcMessage, invoke: methodProxy}: a new object
newContext(cs) == Len(cs) + 1

\* the handler's this: the invocation context it is invoked with
handlerThis(callMessage) == callMessage

\* this.invoke[key] as a handler of engine e reads it
ReadBy(e, key) == targets[invokeOf(e)][key]

CtxEvent(op, e, key, value, r) ==
    [op |-> op, engine |-> e, key |-> key, value |-> value, request |-> r]

NotInvoked == [at |-> "none", context |-> 0, returned |-> 0]

ContextInit ==
    /\ targets = [e \in Engines |-> [k \in ContextKeys |-> Undefined]]
    /\ contexts = <<>>
    /\ invocations = [r \in Requests |-> NotInvoked]
    /\ ctxEvent = CtxEvent("none", "A", "contextKey", Undefined, 0)
    /\ EngineIdle
    /\ ErrorIdle
    /\ PeerIdle
    /\ InboundIdle
    /\ ReplyIdle
    /\ RouterIdle
    /\ ChainIdle
    /\ ProxyIdle

\* a handler of engine e runs  this.invoke[key] = value
setValue(e, key, value) ==
    /\ targets' = [targets EXCEPT ![invokeOf(e)][key] = value]
    /\ ctxEvent' = CtxEvent("set", e, key, value, 0)
    /\ UNCHANGED <<contexts, invocations>>
    /\ UNCHANGED <<engineVars, errVars, peerVars, inboundVars, replyVars,
                   routerVars, chainVars, proxyVars>>

\* a handler of engine e runs  return this.invoke[key]
getValue(e, key) ==
    /\ ctxEvent' = CtxEvent("get", e, key, ReadBy(e, key), 0)
    /\ UNCHANGED <<targets, contexts, invocations>>
    /\ UNCHANGED <<engineVars, errVars, peerVars, inboundVars, replyVars,
                   routerVars, chainVars, proxyVars>>

\* invoke for request r up to the handler's await: the context is made
\* and the handler runs  this[contextKey] = 'method<r>-data'
Begin(r) ==
    /\ invocations[r].at = "none"
    /\ LET c == handlerThis(newContext(contexts)) IN
       /\ contexts' = IF c > Len(contexts)
                        THEN Append(contexts, Data(r))
                        ELSE [contexts EXCEPT ![c] = Data(r)]
       /\ invocations' =
            [invocations EXCEPT ![r] = [at |-> "waiting", context |-> c,
                                        returned |-> 0]]
    /\ ctxEvent' = CtxEvent("begin", "A", "contextKey", Undefined, r)
    /\ UNCHANGED targets
    /\ UNCHANGED <<engineVars, errVars, peerVars, inboundVars, replyVars,
                   routerVars, chainVars, proxyVars>>

\* the handler of request r after its await:  return this[contextKey]
Resume(r) ==
    /\ invocations[r].at = "waiting"
    /\ invocations' =
         [invocations EXCEPT
            ![r] = [at |-> "finished", context |-> @.context,
                    returned |-> contexts[@.context]]]
    /\ ctxEvent' = CtxEvent("resume", "A", "contextKey", Undefined, r)
    /\ UNCHANGED <<targets, contexts>>
    /\ UNCHANGED <<engineVars, errVars, peerVars, inboundVars, replyVars,
                   routerVars, chainVars, proxyVars>>

ContextNext ==
    \/ \E e \in Engines, k \in ContextKeys, v \in ContextValues :
          setValue(e, k, v)
    \/ \E e \in Engines, k \in ContextKeys : getValue(e, k)
    \/ \E r \in Requests : Begin(r)
    \/ \E r \in Requests : Resume(r)

ContextSpec == ContextInit /\ [][ContextNext]_vars

\* C31: a set or get request handled by one engine leaves what the
\* handlers of every other engine read under every symbol key unchanged.
C31_StoresIsolatedPerEngine ==
    [][\A e \in Engines :
         (ctxEvent'.op \in {"set", "get"} /\ ctxEvent'.engine # e) =>
             \A k \in ContextKeys :
                 targets'[invokeOf(e)][k] = ReadBy(e, k)]_vars

\* C31 witness: both engines hold a value under the same key and A reads
\* its own
C31_Witness ==
    /\ ctxEvent = CtxEvent("get", "A", "contextKey", "value1", 0)
    /\ ReadBy("A", "contextKey") = "value1"
    /\ ReadBy("B", "contextKey") = "value2"

\* C32: a handler invocation that has set a property on its context finds
\* its own value there while it waits and when it resumes, whatever the
\* handler invocations of other requests did in between.
C32_ContextPerRequest ==
    \A r \in DOMAIN invocations :
        /\ invocations[r].at = "waiting" =>
              contexts[invocations[r].context] = Data(r)
        /\ invocations[r].at = "finished" => invocations[r].returned = Data(r)

\* C32 witness: request 1 resumed while request 2, begun after it, was
\* still waiting
C32_Witness ==
    /\ ctxEvent.op = "resume" /\ ctxEvent.request = 1
    /\ invocations[1].at = "finished" /\ invocations[1].returned = Data(1)
    /\ invocations[2].at = "waiting"
    /\ invocations[2].context > invocations[1].context

\* the k-th invocation of the run threw
InvocationThrew(k) ==
    element(chain[k], chainOutcome.seen[k]).throws

\* C36: the k-th invocation of a run is of the k-th element of the chain
\* and starts when the one before it has returned; once an invocation has
\* thrown no further element is invoked, the run has ended with that
\* element's error and the call fails with its code and message.
C36_InOrderUntilThrow ==
    chainOutcome.kind # "idle" =>
        LET n == Len(chainOutcome.seen) IN
        /\ n <= Len(chain)
        /\ \A k \in 1 .. n - 1 : ~InvocationThrew(k)
        /\ \A k \in 1 .. Len(chainOutcome.returns) :
              chainOutcome.returns[k] =
                  element(chain[k], chainOutcome.seen[k]).returns
        /\ chainOutcome.kind = "running" =>
              /\ chainOutcome.at = n + 1
              /\ Len(chainOutcome.returns) = n
        /\ (n > 0 /\ InvocationThrew(n)) =>
              /\ ElementThrew
              /\ Answered =>
                    /\ chainOutcome.call.kind = "raised"
                    /\ chainOutcome.call.error.code = ElementError.code
                    /\ chainOutcome.call.error.message = ElementError.message

\* C36 witness: the second of three elements threw, the third was never
\* invoked and the caller got the second's error
C36_Witness ==
    /\ Answered
    /\ chain = <<"upper", "throw", "echo">>
    /\ Len(chainOutcome.seen) = 2
    /\ chainOutcome.call.kind = "raised"
    /\ chainOutcome.call.error.code = ElementError.code
=============================================================================
